---------------------------- MODULE Spec2Model ----------------------------
(***************************************************************************)
(* Model of memory_simulator.c: a virtual memory simulator with a          *)
(* translation lookaside buffer (FIFO replacement) in front of a page      *)
(* table with demand paging from a backing file, disk.bin.                 *)
(*                                                                         *)
(* One action models one iteration of main's while loop (lines 128-151),   *)
(* every call it makes included; a second action models what main does     *)
(* once fgets returns NULL (lines 153-166).                                *)
(***************************************************************************)
EXTENDS Integers, Naturals, Sequences, FiniteSets, TLC

(***************************************************************************)
(* Program constants (the #defines of lines 30-37).                        *)
(***************************************************************************)
FRAME_SIZE_BYTES == 256
NUM_FRAMES == 256
NUM_TLB_ENTRIES == 16
OFFSET_MASK == 255
PAGE_NUM_MASK == 65280
PAGE_NUM_SHIFT == 8
PAGE_SIZE_BYTES == 256
VIRT_ADDR_CHAR_LENGTH == 10

(***************************************************************************)
(* Bounds of the model.                                                    *)
(***************************************************************************)
\* Spec: the longest address stream explored.
MaxAddresses == 19
\* SpecScript: how many addresses a sweep script reads after it has touched
\* every one of the 256 pages.
SweepExtra == 3
\* SpecLines: the most lines an address file holds.
MaxLines == 3

VARIABLES
    page_table,               \* int page_table[PAGE_SIZE_BYTES]
    local_memory,             \* struct memory: memory (the frames written so far,
                              \* each as the extent of disk.bin copied into it;
                              \* every other frame still holds the zeros of static
                              \* storage) and highest_open_frame
    TLB,                      \* struct tlb
    num_page_faults,          \* the static counter of check_page_table
    num_TLB_hits,             \* main's statistics
    num_Pg_faults,
    num_addresses_processed,
    pc,                       \* "loop": in the while loop; "done": main returned 0
    last,                     \* the locals of the latest loop iteration, as printed
    num_reported,             \* the per-address lines printed so far
    summary,                  \* the statistics line printed at the end
    disk,                     \* disk.bin: descriptor, size in bytes, contents
    script,                   \* SpecScript: the addresses of the address file;
                              \* SpecLines: the integers written on its lines
    address_file,             \* SpecLines: the characters of the address file not
                              \* yet read
    \* History variables: they record what happened and decide nothing.
    seen,                     \* the page numbers referenced so far
    allocated,                \* the frames load_page_disk_to_memory returned, in order
    tlb_order,                \* the TLB slots, earliest written first
    num_table_path,           \* the resolutions that went through check_page_table
    io_failed_at,             \* the address count at the first failed or short read (0: none)
    num_summaries,            \* the statistics lines printed so far
    reference                 \* a translator without a TLB, fed the same addresses

vars == <<page_table, local_memory, TLB, num_page_faults, num_TLB_hits,
          num_Pg_faults, num_addresses_processed, pc, last, num_reported,
          summary, disk, script, address_file, seen, allocated, tlb_order,
          num_table_path, io_failed_at, num_summaries, reference>>

(***************************************************************************)
(* C integer operations.                                                   *)
(***************************************************************************)
RECURSIVE AndBits(_, _, _)
AndBits(x, y, n) ==
    IF n = 0 THEN 0
    ELSE (x % 2) * (y % 2) + 2 * AndBits(x \div 2, y \div 2, n - 1)

\* a & mask for a mask of at most 16 bits: only the low 16 bits of the two's
\* complement representation of a matter, and those are a modulo 2^16.
BitAnd(a, mask) == AndBits(a % 65536, mask, 16)

RECURSIVE Pow2(_)
Pow2(n) == IF n = 0 THEN 1 ELSE 2 * Pow2(n - 1)

\* a >> n for a non-negative a.
ShiftRight(a, n) == a \div Pow2(n)

\* The value of a byte held in a (signed) char.
ToChar(b) == IF b >= 128 THEN b - 256 ELSE b

Min(S) == CHOOSE x \in S : \A y \in S : x <= y

(***************************************************************************)
(* The backing store.  The program only reads it, so its contents are      *)
(* fixed for a run: disk.kind names one of two fillings.                   *)
(***************************************************************************)
DiskByte(kind, pos) ==
    LET page == pos \div PAGE_SIZE_BYTES
        k    == pos % PAGE_SIZE_BYTES
    IN  IF kind = "scenario" /\ page = 0 THEN 0
        ELSE IF kind = "scenario" /\ page = 1 THEN 5
        ELSE ToChar((page * 31 + k * 7 + 1) % 256)

\* lseek(disk_file, pos, SEEK_SET): -1 on a bad descriptor, else the position.
lseek(dsk, pos) == IF dsk.fd = -1 THEN -1 ELSE pos

\* read(disk_file, tmp_page, 256) at position pos: -1 on a bad descriptor,
\* else the number of bytes the file holds from pos on, at most 256.
read(dsk, pos) ==
    IF dsk.fd = -1 THEN -1
    ELSE IF dsk.size - pos >= PAGE_SIZE_BYTES THEN PAGE_SIZE_BYTES
    ELSE IF dsk.size - pos > 0 THEN dsk.size - pos
    ELSE 0

(***************************************************************************)
(* The functions of the program.  Each takes the globals it reads as       *)
(* arguments and returns the globals it writes.                            *)
(***************************************************************************)
\* A faulty variant: a seven-bit offset mask (0x7F).
get_offset_SevenBits(virtual_address) == BitAnd(virtual_address, 127)

get_offset(virtual_address) == BitAnd(virtual_address, OFFSET_MASK)

\* A faulty variant: the offset mask used for the page number.
get_page_number_OffsetMask(virtual_address) ==
    ShiftRight(BitAnd(virtual_address, OFFSET_MASK), PAGE_NUM_SHIFT)

get_page_number(virtual_address) ==
    ShiftRight(BitAnd(virtual_address, PAGE_NUM_MASK), PAGE_NUM_SHIFT)

initialize_memory == [memory |-> <<>>, highest_open_frame |-> 0]

initialize_page_table == [i \in 0..(PAGE_SIZE_BYTES - 1) |-> -1]

\* The arrays of the TLB are static storage: zero until written.
initialize_TLB ==
    [page_numbers  |-> [i \in 0..(NUM_TLB_ENTRIES - 1) |-> 0],
     frame_numbers |-> [i \in 0..(NUM_TLB_ENTRIES - 1) |-> 0],
     num_filled    |-> 0,
     head_position |-> 0]

\* A faulty variant: the frame is read at the scan index, not at the slot the
\* page was found in.
search_TLB_FrameAtIndex(tlb, page_number) ==
    LET found == {index \in 0..(tlb.num_filled - 1) :
                    tlb.page_numbers[(tlb.head_position + index) % NUM_TLB_ENTRIES]
                        = page_number}
    IN  IF found = {} THEN -1
        ELSE tlb.frame_numbers[Min(found)]

\* A faulty variant: the scan runs over the whole array, not the filled entries.
search_TLB_AllSlots(tlb, page_number) ==
    LET found == {index \in 0..(NUM_TLB_ENTRIES - 1) :
                    tlb.page_numbers[(tlb.head_position + index) % NUM_TLB_ENTRIES]
                        = page_number}
    IN  IF found = {} THEN -1
        ELSE tlb.frame_numbers[(tlb.head_position + Min(found)) % NUM_TLB_ENTRIES]

\* A faulty variant: the scan stops one entry early (index < num_filled - 1).
search_TLB_SkipsNewest(tlb, page_number) ==
    LET found == {index \in 0..(tlb.num_filled - 2) :
                    tlb.page_numbers[(tlb.head_position + index) % NUM_TLB_ENTRIES]
                        = page_number}
    IN  IF found = {} THEN -1
        ELSE tlb.frame_numbers[(tlb.head_position + Min(found)) % NUM_TLB_ENTRIES]

search_TLB(tlb, page_number) ==
    LET found == {index \in 0..(tlb.num_filled - 1) :
                    tlb.page_numbers[(tlb.head_position + index) % NUM_TLB_ENTRIES]
                        = page_number}
    IN  IF found = {} THEN -1
        ELSE tlb.frame_numbers[(tlb.head_position + Min(found)) % NUM_TLB_ENTRIES]

\* A faulty variant: the index and the value are swapped.
update_page_table_SwappedIndex(pt, page_number, frame_number) ==
    [pt EXCEPT ![frame_number] = page_number]

update_page_table(pt, page_number, frame_number) ==
    [pt EXCEPT ![page_number] = frame_number]

\* A faulty variant: the head wraps one slot early.
update_TLB_WrapsEarly(tlb, page_number, frame_number) ==
    IF tlb.num_filled = NUM_TLB_ENTRIES
    THEN [tlb EXCEPT !.page_numbers[tlb.head_position] = page_number,
                     !.frame_numbers[tlb.head_position] = frame_number,
                     !.head_position = (tlb.head_position + 1)
                                            % (NUM_TLB_ENTRIES - 1)]
    ELSE [tlb EXCEPT !.page_numbers[tlb.num_filled] = page_number,
                     !.frame_numbers[tlb.num_filled] = frame_number,
                     !.num_filled = tlb.num_filled + 1]

\* A faulty variant: the head is not advanced after a replacement.
update_TLB_NoAdvance(tlb, page_number, frame_number) ==
    IF tlb.num_filled = NUM_TLB_ENTRIES
    THEN [tlb EXCEPT !.page_numbers[tlb.head_position] = page_number,
                     !.frame_numbers[tlb.head_position] = frame_number]
    ELSE [tlb EXCEPT !.page_numbers[tlb.num_filled] = page_number,
                     !.frame_numbers[tlb.num_filled] = frame_number,
                     !.num_filled = tlb.num_filled + 1]

\* A faulty variant: the head is advanced before the replacement, not after it.
update_TLB_AdvanceFirst(tlb, page_number, frame_number) ==
    IF tlb.num_filled = NUM_TLB_ENTRIES
    THEN LET head == (tlb.head_position + 1) % NUM_TLB_ENTRIES
         IN  [tlb EXCEPT !.page_numbers[head] = page_number,
                         !.frame_numbers[head] = frame_number,
                         !.head_position = head]
    ELSE [tlb EXCEPT !.page_numbers[tlb.num_filled] = page_number,
                     !.frame_numbers[tlb.num_filled] = frame_number,
                     !.num_filled = tlb.num_filled + 1]

update_TLB(tlb, page_number, frame_number) ==
    IF tlb.num_filled = NUM_TLB_ENTRIES
    THEN [tlb EXCEPT !.page_numbers[tlb.head_position] = page_number,
                     !.frame_numbers[tlb.head_position] = frame_number,
                     !.head_position = (tlb.head_position + 1) % NUM_TLB_ENTRIES]
    ELSE [tlb EXCEPT !.page_numbers[tlb.num_filled] = page_number,
                     !.frame_numbers[tlb.num_filled] = frame_number,
                     !.num_filled = tlb.num_filled + 1]

\* A page-sized buffer (tmp_page, a frame of local_memory.memory) is held as
\* the extent of disk.bin it was filled from: byte i is the byte of the file
\* at pos + i for i < got, and the 0 of tmp_page's initialiser from there on.
\* The file is never written, so this is the buffer's contents byte for byte.
BufferByte(kind, buffer, i) ==
    IF i < buffer.got THEN DiskByte(kind, buffer.pos + i) ELSE 0

\* A faulty variant: the seek goes to byte page_number, not page_number * 256.
load_page_disk_to_memory_SeekPage(mem, page_number, offset, dsk) ==
    LET pos      == page_number
        sought   == lseek(dsk, pos)
        got      == read(dsk, pos)
        tmp_page == [pos |-> pos, got |-> got]
        frame    == mem.highest_open_frame
    IN  [memory |-> [memory |-> [f \in (DOMAIN mem.memory) \cup {frame} |->
                                    IF f = frame THEN tmp_page ELSE mem.memory[f]],
                     highest_open_frame |-> mem.highest_open_frame + 1],
         frame_number |-> frame,
         complete |-> sought # -1 /\ got = PAGE_SIZE_BYTES]

\* A faulty variant: the frame number is taken after the counter is incremented.
load_page_disk_to_memory_FrameAfter(mem, page_number, offset, dsk) ==
    LET pos      == page_number * PAGE_SIZE_BYTES
        sought   == lseek(dsk, pos)
        got      == read(dsk, pos)
        tmp_page == [pos |-> pos, got |-> got]
        frame    == mem.highest_open_frame
    IN  [memory |-> [memory |-> [f \in (DOMAIN mem.memory) \cup {frame} |->
                                    IF f = frame THEN tmp_page ELSE mem.memory[f]],
                     highest_open_frame |-> mem.highest_open_frame + 1],
         frame_number |-> frame + 1,
         complete |-> sought # -1 /\ got = PAGE_SIZE_BYTES]

\* Returns the memory after the copy, the frame number, and whether the seek
\* and the read brought in the whole page.
load_page_disk_to_memory(mem, page_number, offset, dsk) ==
    LET pos      == page_number * PAGE_SIZE_BYTES
        sought   == lseek(dsk, pos)
        got      == read(dsk, pos)
        tmp_page == [pos |-> pos, got |-> got]
        frame    == mem.highest_open_frame
    IN  [memory |-> [memory |-> [f \in (DOMAIN mem.memory) \cup {frame} |->
                                    IF f = frame THEN tmp_page ELSE mem.memory[f]],
                     highest_open_frame |-> mem.highest_open_frame + 1],
         frame_number |-> frame,
         complete |-> sought # -1 /\ got = PAGE_SIZE_BYTES]

\* A faulty variant: the page table is not consulted; every TLB miss loads the page.
check_page_table_AlwaysLoad(g, page_number, offset, dsk) ==
    LET loaded == load_page_disk_to_memory(g.local_memory, page_number, offset, dsk)
    IN  [page_table      |-> update_page_table(g.page_table, page_number,
                                               loaded.frame_number),
         local_memory    |-> loaded.memory,
         TLB             |-> update_TLB(g.TLB, page_number, loaded.frame_number),
         num_page_faults |-> g.num_page_faults + 1,
         loads           |-> <<loaded.frame_number>>,
         failed          |-> ~loaded.complete]

\* A faulty variant: the fault counter is incremented on every call, outside
\* the test of the page-table entry.
check_page_table_CountsEveryCall(g, page_number, offset, dsk) ==
    LET fault  == g.page_table[page_number] = -1
        loaded == load_page_disk_to_memory(g.local_memory, page_number, offset, dsk)
        frame_number == IF fault THEN loaded.frame_number
                        ELSE g.page_table[page_number]
    IN  [page_table      |-> IF fault
                             THEN update_page_table(g.page_table, page_number,
                                                    frame_number)
                             ELSE g.page_table,
         local_memory    |-> IF fault THEN loaded.memory ELSE g.local_memory,
         TLB             |-> update_TLB(g.TLB, page_number, frame_number),
         num_page_faults |-> g.num_page_faults + 1,
         loads           |-> IF fault THEN <<loaded.frame_number>> ELSE <<>>,
         failed          |-> fault /\ ~loaded.complete]

\* A faulty variant: the TLB is given the page-table entry as it was before
\* the fault was served.
check_page_table_StaleFrame(g, page_number, offset, dsk) ==
    LET fault  == g.page_table[page_number] = -1
        loaded == load_page_disk_to_memory(g.local_memory, page_number, offset, dsk)
    IN  [page_table      |-> IF fault
                             THEN update_page_table(g.page_table, page_number,
                                                    loaded.frame_number)
                             ELSE g.page_table,
         local_memory    |-> IF fault THEN loaded.memory ELSE g.local_memory,
         TLB             |-> update_TLB(g.TLB, page_number,
                                        g.page_table[page_number]),
         num_page_faults |-> IF fault THEN g.num_page_faults + 1
                             ELSE g.num_page_faults,
         loads           |-> IF fault THEN <<loaded.frame_number>> ELSE <<>>,
         failed          |-> fault /\ ~loaded.complete]

\* A faulty variant: the TLB is not updated after the page table was checked.
check_page_table_NoTLBUpdate(g, page_number, offset, dsk) ==
    LET fault  == g.page_table[page_number] = -1
        loaded == load_page_disk_to_memory(g.local_memory, page_number, offset, dsk)
    IN  [page_table      |-> IF fault
                             THEN update_page_table(g.page_table, page_number,
                                                    loaded.frame_number)
                             ELSE g.page_table,
         local_memory    |-> IF fault THEN loaded.memory ELSE g.local_memory,
         TLB             |-> g.TLB,
         num_page_faults |-> IF fault THEN g.num_page_faults + 1
                             ELSE g.num_page_faults,
         loads           |-> IF fault THEN <<loaded.frame_number>> ELSE <<>>,
         failed          |-> fault /\ ~loaded.complete]

\* g holds the globals: page_table, local_memory, TLB and the static
\* num_page_faults; loads lists the frames handed out by this call, failed
\* tells whether a load of this call was incomplete.
check_page_table(g, page_number, offset, dsk) ==
    LET fault  == g.page_table[page_number] = -1
        loaded == load_page_disk_to_memory(g.local_memory, page_number, offset, dsk)
        frame_number == IF fault THEN loaded.frame_number
                        ELSE g.page_table[page_number]
    IN  [page_table      |-> IF fault
                             THEN update_page_table(g.page_table, page_number,
                                                    frame_number)
                             ELSE g.page_table,
         local_memory    |-> IF fault THEN loaded.memory ELSE g.local_memory,
         TLB             |-> update_TLB(g.TLB, page_number, frame_number),
         num_page_faults |-> IF fault THEN g.num_page_faults + 1
                             ELSE g.num_page_faults,
         loads           |-> IF fault THEN <<loaded.frame_number>> ELSE <<>>,
         failed          |-> fault /\ ~loaded.complete]

\* What local_memory.memory[frame_number][offset] may read.  A frame never
\* written still holds zeros; an index outside the array is undefined
\* behaviour: any char.
UndefinedChars == {-128, -1, 0, 1, 127}

memory_read(kind, mem, frame_number, offset) ==
    IF frame_number \in DOMAIN mem.memory
    THEN {BufferByte(kind, mem.memory[frame_number], offset)}
    ELSE IF frame_number \in 0..(NUM_FRAMES - 1) THEN {0}
    ELSE UndefinedChars

\* A faulty variant: the page table is checked, and the TLB updated, on a TLB
\* hit too.
translate_AlwaysCheck(g, first, page_number, offset, dsk) ==
    check_page_table(g, page_number, offset, dsk)

\* Lines 137-144 of main: first is what search_TLB returned; on a miss the
\* page table is checked (and the TLB updated), on a hit nothing is touched.
translate(g, first, page_number, offset, dsk) ==
    IF first = -1 THEN check_page_table(g, page_number, offset, dsk) ELSE g

Globals ==
    [page_table |-> page_table, local_memory |-> local_memory, TLB |-> TLB,
     num_page_faults |-> num_page_faults, loads |-> <<>>, failed |-> FALSE]

\* The slots of the TLB an update wrote: those whose pair changed and those
\* that became filled.
WrittenSlots(old, new) ==
    {s \in 0..(NUM_TLB_ENTRIES - 1) :
        \/ old.page_numbers[s] # new.page_numbers[s]
        \/ old.frame_numbers[s] # new.frame_numbers[s]
        \/ (old.num_filled <= s /\ s < new.num_filled)}

RECURSIVE SetToSeq(_)
SetToSeq(S) == IF S = {} THEN <<>> ELSE <<Min(S)>> \o SetToSeq(S \ {Min(S)})

(***************************************************************************)
(* The reference translator: no TLB, every address resolved through its    *)
(* page table alone.  It is the yardstick of the TLB's transparency and    *)
(* shares nothing with the functions above but the backing store.          *)
(***************************************************************************)
ReferenceInit ==
    [page_table |-> <<>>, frames |-> <<>>, faults |-> 0,
     physical_address |-> 0, value |-> 0]

ReferenceStep(ref, virtual_address, dsk) ==
    LET page   == (virtual_address \div 256) % 256
        offset == virtual_address % 256
        fault  == page \notin DOMAIN ref.page_table
        frame  == IF fault THEN Len(ref.frames) ELSE ref.page_table[page]
        got    == read(dsk, page * 256)
        frames == IF fault THEN Append(ref.frames, [page |-> page, got |-> got])
                  ELSE ref.frames
        held   == frames[frame + 1]
    IN  [page_table |-> IF fault
                        THEN [p \in (DOMAIN ref.page_table) \cup {page} |->
                                IF p = page THEN frame ELSE ref.page_table[p]]
                        ELSE ref.page_table,
         frames |-> frames,
         faults |-> IF fault THEN ref.faults + 1 ELSE ref.faults,
         physical_address |-> frame * 256 + offset,
         value |-> IF offset < held.got
                   THEN DiskByte(dsk.kind, held.page * 256 + offset) ELSE 0]

(***************************************************************************)
(* One iteration of the while loop of main, for the address read.          *)
(***************************************************************************)
main_loop(virtual_address) ==
    \E page_number \in {get_page_number(virtual_address)},
       offset \in {get_offset(virtual_address)} :
    \E first \in {search_TLB(TLB, page_number)} :
    \E g \in {translate(Globals, first, page_number, offset, disk)} :
    \E frame_number \in {IF first = -1 THEN search_TLB(g.TLB, page_number)
                          ELSE first},
       written \in {WrittenSlots(TLB, g.TLB)} :
    LET miss == first = -1
        physical_address == frame_number * FRAME_SIZE_BYTES + offset
    IN  /\ num_addresses_processed' = num_addresses_processed + 1
        /\ page_table' = g.page_table
        /\ local_memory' = g.local_memory
        /\ TLB' = g.TLB
        /\ num_page_faults' = g.num_page_faults
        /\ num_Pg_faults' = IF miss THEN g.num_page_faults ELSE num_Pg_faults
        /\ num_TLB_hits' = IF miss THEN num_TLB_hits ELSE num_TLB_hits + 1
        /\ \E value \in memory_read(disk.kind, g.local_memory, frame_number, offset) :
             last' = [virtual_address  |-> virtual_address,
                      page_number      |-> page_number,
                      offset           |-> offset,
                      frame_number     |-> frame_number,
                      physical_address |-> physical_address,
                      value            |-> value,
                      tlb_hit          |-> ~miss,
                      page_fault       |-> g.loads # <<>>]
        /\ num_reported' = num_reported + 1
        /\ seen' = seen \cup {page_number}
        /\ allocated' = allocated \o g.loads
        /\ tlb_order' = SelectSeq(tlb_order, LAMBDA s : s \notin written)
                            \o SetToSeq(written)
        /\ num_table_path' = IF miss THEN num_table_path + 1 ELSE num_table_path
        /\ io_failed_at' = IF io_failed_at = 0 /\ g.failed
                           THEN num_addresses_processed + 1
                           ELSE io_failed_at
        /\ reference' = ReferenceStep(reference, virtual_address, disk)
        /\ UNCHANGED <<pc, summary, disk, script, num_summaries>>

\* (double) n / d as main prints it: not a number when d is 0.
Rate(n, d) ==
    IF d = 0 THEN [kind |-> "nan", num |-> n, den |-> d]
    ELSE [kind |-> "ratio", num |-> n, den |-> d]

\* A faulty variant: main returns before the statistics are printed.
main_end_NoSummary ==
    /\ pc' = "done"
    /\ UNCHANGED <<page_table, local_memory, TLB, num_page_faults, num_TLB_hits,
                   num_Pg_faults, num_addresses_processed, last, num_reported,
                   summary, disk, script, address_file, seen, allocated,
                   tlb_order, num_table_path, io_failed_at, num_summaries,
                   reference>>

\* fgets returned NULL: the files are closed, the statistics printed, and
\* main returns 0.
main_end ==
    /\ pc' = "done"
    /\ num_summaries' = num_summaries + 1
    /\ summary' = [fault_rate |-> Rate(num_Pg_faults, num_addresses_processed),
                   hit_rate   |-> Rate(num_TLB_hits, num_addresses_processed)]
    /\ UNCHANGED <<page_table, local_memory, TLB, num_page_faults, num_TLB_hits,
                   num_Pg_faults, num_addresses_processed, last, num_reported,
                   disk, script, address_file, seen, allocated, tlb_order,
                   num_table_path, io_failed_at, reference>>

(***************************************************************************)
(* The state after main's initialisation (lines 101-124).                  *)
(***************************************************************************)
NoLine ==
    [virtual_address |-> 0, page_number |-> 0, offset |-> 0, frame_number |-> 0,
     physical_address |-> 0, value |-> 0, tlb_hit |-> FALSE,
     page_fault |-> FALSE]

NoRate == [kind |-> "none", num |-> 0, den |-> 0]

InitProgram ==
    /\ page_table = initialize_page_table
    /\ local_memory = initialize_memory
    /\ TLB = initialize_TLB
    /\ num_page_faults = 0
    /\ num_TLB_hits = 0
    /\ num_Pg_faults = 0
    /\ num_addresses_processed = 0
    /\ pc = "loop"
    /\ last = NoLine
    /\ num_reported = 0
    /\ summary = [fault_rate |-> NoRate, hit_rate |-> NoRate]
    /\ seen = {}
    /\ allocated = <<>>
    /\ tlb_order = <<>>
    /\ num_table_path = 0
    /\ io_failed_at = 0
    /\ num_summaries = 0
    /\ reference = ReferenceInit

\* disk.bin: all 65536 bytes there; cut short in the middle of page 2; not
\* opened (disk_file is -1).
FullSize == NUM_FRAMES * PAGE_SIZE_BYTES
ShortSize == 2 * PAGE_SIZE_BYTES + 128

Disks ==
    {[fd |-> 3, size |-> FullSize, kind |-> "pattern"],
     [fd |-> 3, size |-> ShortSize, kind |-> "pattern"]}

ScriptDisks ==
    Disks \cup {[fd |-> 3, size |-> FullSize, kind |-> "scenario"],
                [fd |-> -1, size |-> 0, kind |-> "pattern"]}

(***************************************************************************)
(* Spec: the address stream is drawn as it is read.  An address is on a    *)
(* page already referenced, or on the next page of Pool not yet            *)
(* referenced; its offset is one of Offsets; for some pages addresses      *)
(* beyond 16 bits and negative ones are drawn too (nine characters, the    *)
(* most fgets delivers).                                                    *)
(***************************************************************************)
Pool == <<2, 0, 1, 255, 128, 77, 3, 200, 16, 17, 64, 99, 254, 31, 150, 8, 9, 222, 45, 100, 101>>

Offsets == {0, 255}

NextPages ==
    seen \cup (IF Cardinality(seen) < Len(Pool)
               THEN {Pool[Cardinality(seen) + 1]} ELSE {})

\* The pages also addressed beyond 16 bits and below zero: the first two of
\* Pool and the two that meet a full TLB first.
WidePages == {Pool[1], Pool[2], Pool[NUM_TLB_ENTRIES + 1], Pool[NUM_TLB_ENTRIES + 2]}

Addresses ==
    {p * PAGE_SIZE_BYTES + k : p \in NextPages, k \in Offsets}
        \cup {p * PAGE_SIZE_BYTES + 15000 * 65536 + 1 : p \in NextPages \cap WidePages}
        \cup {p * PAGE_SIZE_BYTES - 1500 * 65536 + 7 : p \in NextPages \cap WidePages}

Init ==
    /\ InitProgram
    /\ disk \in Disks
    /\ script = <<>>
    /\ address_file = <<>>

ProcessAddress ==
    /\ pc = "loop"
    /\ num_addresses_processed < MaxAddresses
    /\ \E virtual_address \in Addresses : main_loop(virtual_address)
    /\ UNCHANGED address_file

EndOfStream ==
    /\ pc = "loop"
    /\ main_end

Next == ProcessAddress \/ EndOfStream

Spec == Init /\ [][Next]_vars

(***************************************************************************)
(* SpecScript: the address file is fixed up front and read line by line.   *)
(* The scripts: the three addresses 0, 256, 1 and then 0 again; seventeen  *)
(* addresses on distinct pages and then the first one again; and sweeps    *)
(* over all 256 pages that go on for SweepExtra addresses more.  Some      *)
(* sweeps are of addresses beyond 16 bits, some of negative ones.          *)
(***************************************************************************)
\* Address i of the sweep w = <<first page, page stride, base>>: page
\* first + i * stride (modulo 256), offset 3 * i (modulo 256), plus the base,
\* a multiple of 65536 that the masks drop.
SweepAddress(w, i) ==
    ((w[1] + i * w[2]) % NUM_FRAMES) * PAGE_SIZE_BYTES
        + ((3 * i) % PAGE_SIZE_BYTES) + w[3]

Sweep(w, n) == [i \in 1..n |-> SweepAddress(w, i - 1)]

Sweeps == {<<0, 1, 0>>, <<255, 255, 65536>>, <<7, 37, -131072>>}

Scripts ==
    {<<0, 256, 1, 0>>}
        \cup {Sweep(w, NUM_TLB_ENTRIES + 1) \o <<SweepAddress(w, 0)>> : w \in Sweeps}
        \cup {Sweep(w, NUM_FRAMES + SweepExtra) : w \in Sweeps}

InitScript ==
    /\ InitProgram
    /\ disk \in ScriptDisks
    /\ script \in Scripts
    /\ address_file = <<>>

ProcessLine ==
    /\ pc = "loop"
    /\ num_addresses_processed < Len(script)
    /\ main_loop(script[num_addresses_processed + 1])
    /\ UNCHANGED address_file

EndOfScript ==
    /\ pc = "loop"
    /\ num_addresses_processed = Len(script)
    /\ main_end

NextScript == ProcessLine \/ EndOfScript

SpecScript == InitScript /\ [][NextScript]_vars

(***************************************************************************)
(* SpecLines: the address file as text, read by fgets and atol (lines      *)
(* 127-132).  A character is a one-character string.  Every line is the    *)
(* decimal text of one of LineNumbers, followed by a newline; script holds *)
(* the integers written, address_file the characters not yet read.         *)
(***************************************************************************)
DigitChars == <<"0", "1", "2", "3", "4", "5", "6", "7", "8", "9">>

IsDigit(c) == \E d \in 1..10 : DigitChars[d] = c

DigitValue(c) == (CHOOSE d \in 1..10 : DigitChars[d] = c) - 1

\* isspace of the C locale.
IsSpace(c) == c \in {" ", "\t", "\n", "\r", "\f"}

\* The decimal text of a non-negative integer, as written in the file.
RECURSIVE Decimal(_)
Decimal(n) ==
    IF n < 10 THEN <<DigitChars[n + 1]>>
    ELSE Decimal(n \div 10) \o <<DigitChars[(n % 10) + 1]>>

\* fgets(tmp, size, file) with characters left in the file: it reads until
\* size - 1 characters are read, or a newline is read, or the file ends.
\* Returns the string read and what is left of the file.
fgets(file, size) ==
    LET stops == {i \in 1..Len(file) :
                    file[i] = "\n" \/ i = size - 1 \/ i = Len(file)}
        n     == Min(stops)
    IN  [tmp |-> SubSeq(file, 1, n), rest |-> SubSeq(file, n + 1, Len(file))]

\* The value of the digits at the start of a string.
RECURSIVE DigitsValue(_, _)
DigitsValue(str, acc) ==
    IF str = <<>> \/ ~IsDigit(Head(str)) THEN acc
    ELSE DigitsValue(Tail(str), acc * 10 + DigitValue(Head(str)))

\* atol: white space is skipped, then an optional sign and the digits that
\* follow are converted; 0 when there are none.
RECURSIVE atol(_)
atol(str) ==
    IF str = <<>> THEN 0
    ELSE IF IsSpace(Head(str)) THEN atol(Tail(str))
    ELSE IF Head(str) = "-" THEN 0 - DigitsValue(Tail(str), 0)
    ELSE IF Head(str) = "+" THEN DigitsValue(Tail(str), 0)
    ELSE DigitsValue(str, 0)

\* Addresses of 1, 3, 5, 8 and 9 digits.
LineNumbers == {0, 256, 65535, 12345678, 123456789}

RECURSIVE FileText(_)
FileText(numbers) ==
    IF numbers = <<>> THEN <<>>
    ELSE Decimal(Head(numbers)) \o <<"\n">> \o FileText(Tail(numbers))

InitLines ==
    /\ InitProgram
    /\ disk \in Disks
    /\ \E n \in 0..MaxLines : script \in [1..n -> LineNumbers]
    /\ address_file = FileText(script)

ReadLine ==
    /\ pc = "loop"
    /\ address_file # <<>>
    /\ \E got \in {fgets(address_file, VIRT_ADDR_CHAR_LENGTH)} :
         /\ main_loop(atol(got.tmp))
         /\ address_file' = got.rest

EndOfFile ==
    /\ pc = "loop"
    /\ address_file = <<>>
    /\ main_end

NextLines == ReadLine \/ EndOfFile

SpecLines == InitLines /\ [][NextLines]_vars

\* main is one sequential loop that never waits: while it can take a step,
\* it takes it.
SpecLinesFair == SpecLines /\ WF_vars(NextLines)

(***************************************************************************)
(* Properties.                                                             *)
(***************************************************************************)
Pages == 0..(PAGE_SIZE_BYTES - 1)

\* The step is a loop iteration: an address was resolved.
Resolved == num_addresses_processed' = num_addresses_processed + 1

\* The page numbers of the filled entries of a TLB.
TLBPages(tlb) == {tlb.page_numbers[s] : s \in 0..(tlb.num_filled - 1)}

\* disk.bin holds all 256 bytes of page p and can be read.
PageOnDisk(p) == disk.fd # -1 /\ disk.size >= (p + 1) * PAGE_SIZE_BYTES

\* C1: the first resolution of an address on a page is a page fault: the
\* fault count (main's and check_page_table's) goes up by exactly one,
\* whatever the TLB holds.
C1_FirstTouchFaults ==
    [][(Resolved /\ last'.page_number \notin seen)
          => /\ num_Pg_faults' = num_Pg_faults + 1
             /\ num_page_faults' = num_page_faults + 1
             /\ last'.page_fault]_vars

\* A page was touched for the first time while the TLB was full and had
\* already replaced entries.
C1_Witness ==
    /\ last.page_fault
    /\ TLB.num_filled = NUM_TLB_ENTRIES
    /\ TLB.head_position >= 2
    /\ num_TLB_hits >= 1

\* C2: a page-table entry that holds a frame number never changes, and every
\* later resolution of an address on that page, by the TLB or by the page
\* table, uses that frame number.
C2_MappingStable ==
    [][/\ \A p \in Pages : page_table[p] # -1 => page_table'[p] = page_table[p]
       /\ (Resolved /\ page_table[last'.page_number] # -1)
             => last'.frame_number = page_table[last'.page_number]]_vars

\* A mapped page was resolved by the page table after its TLB entry had been
\* replaced, and the TLB was hit at some time.
C2_Witness ==
    /\ num_reported > 0
    /\ ~last.tlb_hit
    /\ ~last.page_fault
    /\ num_TLB_hits >= 1

\* C3: the TLB never holds more than 16 entries, and an insertion into a full
\* TLB of a page it does not hold overwrites exactly the slot written
\* earliest: that entry's page is gone, every other entry stays.
C3_FifoReplacement ==
    /\ [](TLB.num_filled \in 0..NUM_TLB_ENTRIES)
    /\ [][(TLB' # TLB /\ TLB.num_filled = NUM_TLB_ENTRIES)
            => LET oldest == Head(tlb_order)
               IN  /\ last'.page_number \notin TLBPages(TLB)
                   /\ WrittenSlots(TLB, TLB') = {oldest}
                   /\ TLB'.num_filled = NUM_TLB_ENTRIES
                   /\ TLBPages(TLB') =
                         (TLBPages(TLB) \ {TLB.page_numbers[oldest]})
                             \cup {last'.page_number}]_vars

\* Entries have been replaced more than once, the latest resolution replaced
\* one, and the TLB was hit before.
C3_Witness ==
    /\ TLB.num_filled = NUM_TLB_ENTRIES
    /\ TLB.head_position >= 2
    /\ num_reported > 0
    /\ ~last.tlb_hit
    /\ num_TLB_hits >= 1

\* C4: no two filled TLB entries hold the same page number.
C4_NoDuplicatePages ==
    \A s, t \in 0..(TLB.num_filled - 1) :
        s # t => TLB.page_numbers[s] # TLB.page_numbers[t]

\* A page found in the page table was inserted again into a full TLB.
C4_Witness ==
    /\ num_reported > 0
    /\ ~last.tlb_hit
    /\ ~last.page_fault
    /\ TLB.num_filled = NUM_TLB_ENTRIES
    /\ TLB.head_position >= 2

\* C5: the frames handed out are 0, 1, 2, ... in this order, none twice; the
\* frames written are at most NUM_FRAMES - 1 and the next-free-frame counter
\* is at most NUM_FRAMES.
C5_FramesInOrder ==
    /\ \A i \in 1..Len(allocated) : allocated[i] = i - 1
    /\ local_memory.highest_open_frame = Len(allocated)
    /\ local_memory.highest_open_frame <= NUM_FRAMES
    /\ DOMAIN local_memory.memory = 0..(Len(allocated) - 1)
    /\ \A f \in DOMAIN local_memory.memory : f <= NUM_FRAMES - 1

\* All 256 frames are handed out and the stream went on.
C5_Witness ==
    /\ local_memory.highest_open_frame = NUM_FRAMES
    /\ num_addresses_processed > NUM_FRAMES

\* A printed rate lies in [0, 1].
RateInUnit(r) == r.kind = "ratio" /\ 0 <= r.num /\ r.num <= r.den

\* C6: hits plus page-table resolutions is the number of addresses
\* processed, the faults are at most that number, and both rates printed at
\* the end lie in [0, 1].
C6_Statistics ==
    /\ num_TLB_hits + num_table_path = num_addresses_processed
    /\ num_Pg_faults <= num_addresses_processed
    /\ pc = "done" => /\ RateInUnit(summary.fault_rate)
                      /\ RateInUnit(summary.hit_rate)

\* C7: for a page P that disk.bin holds, resolving address P*256 + k gives
\* byte k of that page at physical address page_table[P]*256 + k, on the
\* resolution that faults the page in and on every later one: a later
\* resolution reads the frame the page table already held, and no frame
\* written is ever written again.
C7_RoundTrip ==
    /\ []((/\ num_reported > 0
            /\ last.virtual_address \in 0..(NUM_FRAMES * PAGE_SIZE_BYTES - 1)
            /\ PageOnDisk(last.page_number))
           => /\ last.page_number * PAGE_SIZE_BYTES + last.offset
                    = last.virtual_address
              /\ last.value = DiskByte(disk.kind, last.virtual_address)
              /\ last.physical_address =
                    page_table[last.page_number] * FRAME_SIZE_BYTES + last.offset)
    /\ [][/\ \A f \in DOMAIN local_memory.memory :
                /\ f \in DOMAIN local_memory'.memory
                /\ local_memory'.memory[f] = local_memory.memory[f]
           /\ (Resolved /\ page_table[last'.page_number] # -1)
                => /\ last'.physical_address =
                         page_table[last'.page_number] * FRAME_SIZE_BYTES
                             + last'.offset
                   /\ last'.value \in
                         memory_read(disk.kind, local_memory,
                                     page_table[last'.page_number],
                                     last'.offset)]_vars

\* An address of a page that disk.bin holds was resolved by a TLB hit, with
\* a byte that is not the zero of an unwritten frame.
C7_Witness ==
    /\ num_reported > 0
    /\ last.tlb_hit
    /\ last.virtual_address \in 0..(NUM_FRAMES * PAGE_SIZE_BYTES - 1)
    /\ PageOnDisk(last.page_number)
    /\ last.offset = 255
    /\ last.value # 0

\* The scenario of C8: page 0 of disk.bin all zero, page 1 all 5, and the
\* address file starting 0, 256, 1.
Scenario ==
    /\ disk = [fd |-> 3, size |-> FullSize, kind |-> "scenario"]
    /\ Len(script) >= 3
    /\ SubSeq(script, 1, 3) = <<0, 256, 1>>

ScenarioValues ==
    /\ num_addresses_processed = 1 => last.value = 0
    /\ num_addresses_processed = 2 => last.value = 5
    /\ num_addresses_processed = 3 => last.value = 0
    /\ (num_addresses_processed = 4 /\ script[4] = 0)
          => last.tlb_hit /\ last.value = 0

\* C8 as stated: the addresses 0, 256, 1 give the bytes 0, 5, 0 with 2 faults
\* and 0 TLB hits, and address 0 after them hits the TLB and gives 0.
C8_AsStated ==
    Scenario => /\ ScenarioValues
                /\ num_addresses_processed = 3
                      => num_Pg_faults = 2 /\ num_TLB_hits = 0

\* C8 as amended: the addresses 0, 256, 1 give the bytes 0, 5, 0 with 2
\* faults and 1 TLB hit (address 1 is on page 0, which the TLB holds), and
\* address 0 after them hits the TLB and gives 0.
C8_Scenario ==
    Scenario => /\ ScenarioValues
                /\ num_addresses_processed = 3
                      => /\ num_Pg_faults = 2
                         /\ num_TLB_hits = 1
                         /\ last.tlb_hit

\* The four addresses of the scenario have been resolved.
C8_Witness ==
    /\ Scenario
    /\ num_addresses_processed = 4
    /\ script[4] = 0

\* The page of line i of the address file: bits 8 to 15 of the address.
ScriptPage(i) == (script[i] \div PAGE_SIZE_BYTES) % NUM_FRAMES

\* The first 17 lines of the address file are on 17 distinct pages.
DistinctStart ==
    /\ Len(script) >= NUM_TLB_ENTRIES + 1
    /\ \A i, j \in 1..(NUM_TLB_ENTRIES + 1) : i # j => ScriptPage(i) # ScriptPage(j)

\* C9: 17 addresses on 17 distinct pages fill the TLB with the first 16, the
\* 17th replaces the entry of the first address's page, and a reference to
\* that page right after is a TLB miss and a page-table hit: no fault.
C9_SeventeenPages ==
    DistinctStart =>
        /\ num_addresses_processed = NUM_TLB_ENTRIES
              => /\ TLB.num_filled = NUM_TLB_ENTRIES
                 /\ \A i \in 1..NUM_TLB_ENTRIES :
                        TLB.page_numbers[i - 1] = ScriptPage(i)
        /\ num_addresses_processed = NUM_TLB_ENTRIES + 1
              => /\ TLB.num_filled = NUM_TLB_ENTRIES
                 /\ TLBPages(TLB) = {ScriptPage(i) : i \in 2..(NUM_TLB_ENTRIES + 1)}
                 /\ search_TLB(TLB, ScriptPage(1)) = -1
                 /\ num_Pg_faults = NUM_TLB_ENTRIES + 1
        /\ (/\ num_addresses_processed = NUM_TLB_ENTRIES + 2
            /\ ScriptPage(NUM_TLB_ENTRIES + 2) = ScriptPage(1))
              => /\ ~last.tlb_hit
                 /\ ~last.page_fault
                 /\ last.frame_number = 0
                 /\ num_Pg_faults = NUM_TLB_ENTRIES + 1

\* The first page was referenced again right after the 17 distinct pages.
C9_Witness ==
    /\ DistinctStart
    /\ num_addresses_processed = NUM_TLB_ENTRIES + 2
    /\ ScriptPage(NUM_TLB_ENTRIES + 2) = ScriptPage(1)

\* C10: when the seek or the read of a page fault does not bring in the
\* whole page, the run stops there: no line is printed for the faulting
\* address and no further address is processed.
C10_FatalOnFailedRead ==
    io_failed_at # 0 => /\ num_reported < io_failed_at
                        /\ num_addresses_processed = io_failed_at

\* The filled entries of a TLB, as pairs of page and frame number.
TLBEntries(tlb) ==
    {<<tlb.page_numbers[s], tlb.frame_numbers[s]>> : s \in 0..(tlb.num_filled - 1)}

\* C11: resolving an address whose page has a page-table entry but no TLB
\* entry is a TLB miss and a page-table hit: the fault counts, the page
\* table, the physical store, the next-free-frame counter and the hit count
\* stay as they are, no page is loaded from the backing store, and the TLB
\* changes by the insertion of (page, page_table[page]) in one slot.
C11_TableHitFrame ==
    [][(/\ Resolved
        /\ page_table[last'.page_number] # -1
        /\ last'.page_number \notin TLBPages(TLB))
          => /\ ~last'.tlb_hit
             /\ ~last'.page_fault
             /\ UNCHANGED <<num_Pg_faults, num_page_faults, page_table,
                            local_memory, num_TLB_hits, allocated>>
             /\ Cardinality(WrittenSlots(TLB, TLB')) = 1
             /\ <<last'.page_number, page_table[last'.page_number]>>
                   \in TLBEntries(TLB')
             /\ \A s \in WrittenSlots(TLB, TLB') :
                   /\ TLB'.page_numbers[s] = last'.page_number
                   /\ TLB'.frame_numbers[s] = page_table[last'.page_number]
             /\ last'.frame_number = page_table[last'.page_number]]_vars

\* A page whose TLB entry had been replaced was found in the page table and
\* put back into the TLB.
C11_Witness ==
    /\ num_reported > 0
    /\ ~last.tlb_hit
    /\ ~last.page_fault
    /\ TLB.head_position >= 1
    /\ <<last.page_number, page_table[last.page_number]>> \in TLBEntries(TLB)
    /\ num_page_faults > NUM_TLB_ENTRIES

\* C12: for every address a, negative ones and ones beyond 16 bits included,
\* the page number is bits 8 to 15 of a, (a >> 8) & 0xFF, the offset is bits
\* 0 to 7, a & 0xFF, both in 0..255, and the physical address is
\* frame_number * 256 + offset: in 0..65535, its low 8 bits the offset.
C12_AddressArithmetic ==
    num_reported > 0 =>
        /\ last.page_number = (last.virtual_address \div 256) % 256
        /\ last.page_number \in 0..255
        /\ last.offset = last.virtual_address % 256
        /\ last.offset \in 0..255
        /\ last.physical_address = last.frame_number * 256 + last.offset
        /\ last.physical_address \in 0..65535
        /\ last.physical_address % 256 = last.offset

\* A negative address was resolved, on a page that met a full TLB, into a
\* frame other than frame 0.
C12_Witness ==
    /\ num_reported > 0
    /\ last.virtual_address < 0
    /\ last.page_number = Pool[NUM_TLB_ENTRIES + 2]
    /\ last.frame_number > 0

\* C13: when every line of the address file is a non-negative integer of at
\* most 9 digits and a newline, one address is processed and one line
\* printed per input line, and the i-th address printed is the integer of
\* the i-th line.
C13_OneAddressPerLine ==
    /\ num_addresses_processed = num_reported
    /\ num_reported <= Len(script)
    /\ num_reported > 0 => last.virtual_address = script[num_reported]
    /\ pc = "done" => num_reported = Len(script)

\* C14: for a finite address file, every address read is resolved and
\* reported before the next is read, the file is eventually exhausted, and
\* then the statistics are printed, once and after the last report line,
\* and main returns 0 (pc = "done").
C14_RunsToCompletion ==
    /\ <>(pc = "done")
    /\ [](num_reported = num_addresses_processed)
    /\ [](pc = "loop" => num_summaries = 0)
    /\ [](pc = "done" => /\ address_file = <<>>
                          /\ num_summaries = 1
                          /\ summary.fault_rate.kind # "none"
                          /\ summary.hit_rate.kind # "none")
    /\ [][pc = "done" => num_reported' = num_reported]_vars

\* A file of several lines, one of them read in two pieces, was read to its
\* end and main returned.
C14_Witness ==
    /\ pc = "done"
    /\ Len(script) >= 2
    /\ num_reported > Len(script)
    /\ address_file = <<>>

\* C15: a resolution that hits the TLB adds one to the hit count (and to the
\* processed count) and leaves the TLB (entries, filled count, head
\* position), the page table, the physical store with its next-free-frame
\* counter and the fault counts as they are: the entry replaced next is the
\* same as before.
C15_HitFrame ==
    [][(Resolved /\ last'.page_number \in TLBPages(TLB))
          => /\ last'.tlb_hit
             /\ num_TLB_hits' = num_TLB_hits + 1
             /\ UNCHANGED <<TLB, page_table, local_memory, num_Pg_faults,
                            num_page_faults, allocated, tlb_order>>]_vars

\* The oldest entry of a full TLB that has replaced entries was hit.
C15_Witness ==
    /\ num_reported > 0
    /\ last.tlb_hit
    /\ TLB.num_filled = NUM_TLB_ENTRIES
    /\ TLB.head_position >= 1
    /\ TLB.page_numbers[TLB.head_position] = last.page_number

\* The slots search_TLB looks at, in the order it looks at them.
ScanOrder(tlb) ==
    [i \in 1..tlb.num_filled |-> (tlb.head_position + i - 1) % NUM_TLB_ENTRIES]

\* Slot s of the TLB holds the same pair before and after the step.
SlotKept(s) ==
    /\ TLB'.page_numbers[s] = TLB.page_numbers[s]
    /\ TLB'.frame_numbers[s] = TLB.frame_numbers[s]

\* Slot s of the TLB holds the pair of the address just resolved.
SlotWritten(s) ==
    /\ TLB'.page_numbers[s] = last'.page_number
    /\ TLB'.frame_numbers[s] = page_table'[last'.page_number]

\* C16: an update of a TLB with fewer than 16 filled entries writes the pair
\* at slot num_filled, adds one to num_filled and leaves head_position at 0;
\* an update of a full TLB overwrites the slot at head_position, advances
\* head_position by one modulo 16 and leaves num_filled at 16.  So
\* num_filled never decreases, head_position is non-zero only in a full
\* TLB, and search_TLB scans the filled entries oldest first.
C16_UpdateTLB ==
    /\ [][TLB' # TLB =>
            IF TLB.num_filled < NUM_TLB_ENTRIES
            THEN /\ SlotWritten(TLB.num_filled)
                 /\ \A s \in 0..(NUM_TLB_ENTRIES - 1) \ {TLB.num_filled} : SlotKept(s)
                 /\ TLB'.num_filled = TLB.num_filled + 1
                 /\ TLB.head_position = 0
                 /\ TLB'.head_position = 0
            ELSE /\ SlotWritten(TLB.head_position)
                 /\ \A s \in 0..(NUM_TLB_ENTRIES - 1) \ {TLB.head_position} : SlotKept(s)
                 /\ TLB'.num_filled = NUM_TLB_ENTRIES
                 /\ TLB'.head_position = (TLB.head_position + 1) % 16]_vars
    /\ [][TLB'.num_filled >= TLB.num_filled]_vars
    /\ [](TLB.head_position # 0 => TLB.num_filled = NUM_TLB_ENTRIES)
    /\ [](TLB.head_position \in 0..(NUM_TLB_ENTRIES - 1))
    /\ [](ScanOrder(TLB) = tlb_order)

\* The head has gone round the whole array and is past slot 0 again.
C16_Witness ==
    /\ num_page_faults > 2 * NUM_TLB_ENTRIES
    /\ TLB.head_position = 1
    /\ ~last.tlb_hit

\* C17: every filled TLB entry (p, f) agrees with the page table:
\* page_table[p] is mapped and equals f.
C17_TLBAgreesWithPageTable ==
    \A s \in 0..(TLB.num_filled - 1) :
        /\ TLB.page_numbers[s] \in Pages
        /\ page_table[TLB.page_numbers[s]] # -1
        /\ page_table[TLB.page_numbers[s]] = TLB.frame_numbers[s]

\* A full TLB after replacements, one of whose entries was put back from the
\* page table without a fault.
C17_Witness ==
    /\ TLB.num_filled = NUM_TLB_ENTRIES
    /\ TLB.head_position >= 1
    /\ num_table_path > num_page_faults
    /\ ~last.tlb_hit /\ ~last.page_fault
    /\ <<last.page_number, page_table[last.page_number]>> \in TLBEntries(TLB)

\* The pages the page table maps.
Mapped == {p \in Pages : page_table[p] # -1}

\* C18: between address resolutions the fault count equals the next-free-frame
\* counter, the number of page-table entries different from -1 and the number
\* of distinct pages referenced so far; the mapped entries are pairwise
\* distinct frame numbers and are exactly 0 .. fault count - 1.
C18_FaultAccounting ==
    /\ num_Pg_faults = num_page_faults
    /\ num_page_faults = local_memory.highest_open_frame
    /\ num_page_faults = Cardinality(Mapped)
    /\ num_page_faults = Cardinality(seen)
    /\ \A p, q \in Mapped : p # q => page_table[p] # page_table[q]
    /\ {page_table[p] : p \in Mapped} = 0..(num_page_faults - 1)

\* More pages than the TLB holds have faulted, and some address was resolved
\* without a fault, through the TLB and through the page table.
C18_Witness ==
    /\ num_page_faults > NUM_TLB_ENTRIES
    /\ num_TLB_hits > 0
    /\ num_table_path > num_page_faults
    /\ Mapped = seen

\* C19: after a TLB miss the second search_TLB finds the page and does not
\* return -1; for every resolved address the frame number used satisfies
\* 0 <= frame_number < highest_open_frame, and after the resolution the page
\* is in the TLB with the frame that was used.
C19_SecondSearchFinds ==
    num_reported > 0 =>
        /\ last.frame_number # -1
        /\ last.frame_number = search_TLB(TLB, last.page_number)
        /\ 0 <= last.frame_number
        /\ last.frame_number < local_memory.highest_open_frame
        /\ <<last.page_number, last.frame_number>> \in TLBEntries(TLB)
        /\ last.physical_address
              = last.frame_number * FRAME_SIZE_BYTES + last.offset

\* A miss served by a full TLB: the page just resolved sits in the slot
\* before the head, the last one the second search looks at.
C19_Witness ==
    /\ num_reported > 0 /\ ~last.tlb_hit
    /\ TLB.num_filled = NUM_TLB_ENTRIES
    /\ TLB.head_position >= 2
    /\ TLB.page_numbers[TLB.head_position - 1] = last.page_number
    /\ TLB.frame_numbers[TLB.head_position - 1] = last.frame_number

\* C20: the TLB is transparent.  Address by address the physical address and
\* the byte the program reports are those of the reference translator, which
\* has no TLB, and the fault count, as counted and as printed at the end, is
\* the reference translator's.
C20_TLBTransparent ==
    /\ num_reported > 0 =>
          /\ last.physical_address = reference.physical_address
          /\ last.value = reference.value
    /\ num_page_faults = reference.faults
    /\ num_Pg_faults = reference.faults
    /\ pc = "done" => summary.fault_rate.num = reference.faults

\* A finished run in which the TLB was hit, entries were replaced, and a page
\* evicted from the TLB was resolved through the page table.
C20_Witness ==
    /\ pc = "done"
    /\ num_TLB_hits > 0
    /\ TLB.head_position >= 1
    /\ num_table_path > num_page_faults
    /\ reference.faults > NUM_TLB_ENTRIES

=============================================================================
